---- MODULE Spec2Model ----
(***************************************************************************)
(* Model of src/main.py: the crash-game round loop (game_loop) and the     *)
(* two money-moving endpoints (place_bet, cashout) over the sqlite tables  *)
(* users, bets and rounds.                                                 *)
(*                                                                         *)
(* Units.  Money is counted in hundredths (round(x, 2) keeps two           *)
(* decimals), coefficients in hundredths, time in units of 0.05 s (the     *)
(* flight tick's sleep).  round(x, 2) rounds to the nearest hundredth; on  *)
(* an exact tie the result depends on the binary representation of the     *)
(* float, so either neighbour is a possible outcome.                       *)
(*                                                                         *)
(* Time.  The clock advances when the game loop wakes from a sleep; a       *)
(* request reads the clock of the loop's last wake-up.  In Spec and SpecB   *)
(* the sleeps return on time; SpecT adds Stall, the loop resuming late.    *)
(* The database starts with the users table filled and no rounds or bets.  *)
(*                                                                         *)
(* Floats.  The flight loop adds 0.01 to a double on every tick.  Up to    *)
(* 2.05 the running sum is not below the double nearest to the decimal it  *)
(* stands for; from 2.06 on it is below it (the error of the additions     *)
(* turns negative once the sum passes 2.0), so `coef < crash_point` is     *)
(* still true when the two are equal in hundredths.  round(coef, 2) gives  *)
(* the intended hundredths throughout.                                     *)
(*                                                                         *)
(* Subscribers.  connected_clients is a dict: iteration follows insertion  *)
(* order and raises RuntimeError at the next item when the size changed.   *)
(* broadcast is suspended at each `await ws.send_json`, where the          *)
(* websocket_endpoint coroutines of new connections run.  The endpoint's   *)
(* try body only sleeps, so its WebSocketDisconnect handler (lines         *)
(* 178-179) never runs: a subscriber leaves the registry only through      *)
(* broadcast's to_remove.                                                  *)
(*                                                                         *)
(* Atomicity.  The endpoints are plain `def`s, which FastAPI runs on       *)
(* worker threads, so their database statements interleave with each       *)
(* other and with the game loop.  Each sqlite statement is atomic; a write *)
(* transaction (first INSERT/UPDATE up to commit) becomes visible to the   *)
(* other connections at its commit and excludes other writers meanwhile,   *)
(* so it is one step.  A SELECT before the transaction is its own step.    *)
(***************************************************************************)
EXTENDS Integers, Sequences

\* ---------------------------------------------------------------- bounds
NumWorkers == 2
MaxRounds == 2
MaxCalls == 3
MaxOverlap == 1
MaxClients == 2
MaxStalls == 2

\* ---------------------------------------------------- program constants
WaitDelay == 100
WaitSleep == 20
TickSleep == 1
Cooldown == 60
MinCrash == 150
StartCoef == 100
CoefStep == 1
GrowthDen == 2
DriftFrom == 206

Workers == 1..NumWorkers
Users == {"u1", "u2", "u3"}
Amounts == {0, 120}
CrashPoints == {MinCrash}
DriftCrashPoints == {MinCrash, DriftFrom}
Clients == 1..MaxClients
StallTime == 30

\* The users table before the server starts: u3 has no row.
InitUsers == [u \in {"u1", "u2"} |-> IF u = "u1" THEN 300 ELSE 120]

VARIABLES users, bets, rounds, call, ncalls, response, eng, now, stalls,
          connected_clients, closed, bc, message

vars == <<users, bets, rounds, call, ncalls, response, eng, now, stalls,
          connected_clients, closed, bc, message>>
db == <<users, bets, rounds>>
net == <<connected_clients, closed, bc, message>>

\* -------------------------------------------------------------- helpers

\* round(): the integers nearest to n / d (d > 0); two of them on a tie.
Round(n, d) ==
    LET q == n \div d
        r == n % d
    IN  IF 2 * r < d THEN {q}
        ELSE IF 2 * r > d THEN {q + 1}
        ELSE {q, q + 1}

SetMax(S) == CHOOSE x \in S : \A y \in S : y <= x

\* The flight loop's test `coef < crash_point` (line 202) on the running
\* float sum: from DriftFrom on the sum is below the decimal it stands for.
CoefBelow(coef, crash_point) ==
    \/ coef < crash_point
    \/ coef = crash_point /\ coef >= DriftFrom

\* int(start_time - time.time()), in seconds.
Countdown(start_time, t) == (start_time - t) \div WaitSleep

Range(q) == {q[i] : i \in 1..Len(q)}

\* for ws in to_remove: del connected_clients[ws]
DelAll(cs, to_remove) ==
    SelectSeq(cs, LAMBDA ws : ws \notin Range(to_remove))

\* get_user_balance: the balance column, 0.0 when there is no row.
get_user_balance(us, user_id) ==
    IF user_id \in DOMAIN us THEN us[user_id] ELSE 0

\* The latest round whatever its status (the status filter forgotten).
get_current_round_any_status(rs) == Len(rs)

\* get_current_round: id of the latest round that is waiting or running,
\* 0 when there is none (fetchone() returned None).
get_current_round(rs) ==
    LET live == {i \in 1..Len(rs) : rs[i].status \in {"waiting", "running"}}
    IN  IF live = {} THEN 0 ELSE SetMax(live)

\* The UPDATE writing the start time along with the status.
update_round_status_and_start(rs, round_id, status) ==
    [i \in 1..Len(rs) |->
        IF i = round_id
        THEN [rs[i] EXCEPT !.status = status, !.start_time = 0]
        ELSE rs[i]]

\* The UPDATE without its WHERE clause.
update_round_status_all_rows(rs, round_id, status) ==
    [i \in 1..Len(rs) |-> [rs[i] EXCEPT !.status = status]]

\* update_round_status: UPDATE rounds SET status = ? WHERE id = ?
update_round_status(rs, round_id, status) ==
    [i \in 1..Len(rs) |->
        IF i = round_id THEN [rs[i] EXCEPT !.status = status] ELSE rs[i]]

\* The UPDATE without its WHERE clause.
UpdateBalance_all_users(us, user_id, delta) ==
    [u \in DOMAIN us |-> us[u] + delta]

\* UPDATE users SET balance = balance + delta WHERE user_id = ?
UpdateBalance(us, user_id, delta) ==
    [u \in DOMAIN us |-> IF u = user_id THEN us[u] + delta ELSE us[u]]

\* The validation with < for <=.
InvalidStake_zero_allowed(amount, user_balance) ==
    amount < 0 \/ amount > user_balance

\* place_bet's stake validation (line 121).
InvalidStake(amount, user_balance) ==
    amount <= 0 \/ amount > user_balance

\* cashout's pricing (lines 144-146): round(1.0 + flight_duration * 0.1, 2).
CurrentCoef(t, start_time) ==
    {StartCoef + k : k \in Round(t - start_time, GrowthDen)}

\* The win cut to two decimals instead of rounded.
Win_truncated(amount, current_coef) ==
    {(amount * current_coef) \div 100}

\* cashout's win (line 158): round(amount * current_coef, 2).
Win(amount, current_coef) ==
    Round(amount * current_coef, 100)

\* The WHERE clause without its round_id condition.
BetMatches_any_round(b, user_id, round_id) ==
    b.user_id = user_id

\* WHERE user_id = ? AND round_id = ? on the bets table.
BetMatches(b, user_id, round_id) ==
    b.user_id = user_id /\ b.round_id = round_id

\* Row ids of the bets matching (user_id, round_id), and the row fetchone()
\* returns: the first in rowid order, 0 when there is none.
MatchingBets(bs, user_id, round_id) ==
    {i \in 1..Len(bs) : BetMatches(bs[i], user_id, round_id)}

SelectBet(bs, user_id, round_id) ==
    LET m == MatchingBets(bs, user_id, round_id)
    IN  IF m = {} THEN 0 ELSE CHOOSE i \in m : \A j \in m : i <= j

\* UPDATE bets SET cashed_out = 1, coefficient = ? WHERE user_id = ? AND round_id = ?
MarkCashedOut(bs, user_id, round_id, coef) ==
    [i \in 1..Len(bs) |->
        IF BetMatches(bs[i], user_id, round_id)
        THEN [bs[i] EXCEPT !.cashed_out = TRUE, !.coefficient = coef]
        ELSE bs[i]]

\* ----------------------------------------------------------------- state

IdleCall ==
    [pc |-> "idle", user_id |-> "u1", amount |-> 0, round_id |-> 0,
     status |-> "none", start_time |-> 0, current_coef |-> 0,
     rowid |-> 0, row_amount |-> 0, invoked_ended |-> {}, overlap |-> 0]

NoResponse ==
    [worker |-> 0, op |-> "none", user_id |-> "u1", result |-> "none", win |-> 0]

Respond(p, op, user_id, result, win) ==
    [worker |-> p, op |-> op, user_id |-> user_id, result |-> result, win |-> win]

\* No broadcast pass yet, and no message broadcast yet.
NoPass == [pc |-> "done", pos |-> 0, size |-> 0, start |-> {}, got |-> {},
           to_remove |-> <<>>]

NoMessage == [status |-> "none", value |-> 0]

EndedRounds(rs) == {i \in 1..Len(rs) : rs[i].status = "ended"}

Init ==
    /\ users = InitUsers
    /\ bets = <<>>
    /\ rounds = <<>>
    /\ call = [p \in Workers |-> IdleCall]
    /\ response = NoResponse
    /\ ncalls = 0
    /\ eng = [pc |-> "create", round_id |-> 0, start_time |-> 0,
              crash_point |-> 0, coef |-> 0, sleep |-> 0]
    /\ now = 0
    /\ stalls = 0
    /\ connected_clients = <<>>
    /\ closed = {}
    /\ bc = NoPass
    /\ message = NoMessage

\* ------------------------------------------------------------- place_bet

\* The clock when the game loop wakes from the sleep it is in.
Wake == now + eng.sleep

\* The instants at which the model lets requests arrive: before the first
\* round and in a cooldown; at the start and at the end of a countdown; in a
\* flight these ticks after its start, and its end.
ArrivalTicks == {0, 6}

Arrives ==
    \/ eng.pc = "create"
    \/ /\ eng.pc = "wait"
       /\ \/ now = eng.start_time - WaitDelay /\ eng.sleep = 0
          \/ ~(Wake < eng.start_time)
    \/ /\ eng.pc = "flight"
       /\ \/ eng.coef - StartCoef \in ArrivalTicks
          \/ ~CoefBelow(eng.coef, eng.crash_point)

\* A request is taken by the first free worker thread; the model follows
\* MaxCalls requests in all.
Accepts(p) ==
    /\ response = NoResponse
    /\ Arrives
    /\ call[p].pc = "idle"
    /\ \A q \in Workers : q < p => call[q].pc # "idle"
    /\ ncalls < MaxCalls

\* Lines 112-118: read the current round, reject when none or not waiting.
PlaceBetRound(p, user_id, amount) ==
    /\ Accepts(p)
    /\ ncalls' = ncalls + 1
    /\ LET round_id == get_current_round(rounds)
       IN  IF round_id = 0
           THEN /\ response' = Respond(p, "place_bet", user_id, "NoActiveRound", 0)
                /\ call' = [call EXCEPT ![p] = IdleCall]
           ELSE IF rounds[round_id].status # "waiting"
           THEN /\ response' = Respond(p, "place_bet", user_id, "InvalidPhase", 0)
                /\ call' = [call EXCEPT ![p] = IdleCall]
           ELSE /\ call' = [call EXCEPT ![p] =
                        [IdleCall EXCEPT !.pc = "place_check",
                                         !.user_id = user_id,
                                         !.amount = amount,
                                         !.round_id = round_id,
                                         !.status = rounds[round_id].status,
                                         !.start_time = rounds[round_id].start_time,
                                         !.invoked_ended = EndedRounds(rounds)]]
                /\ UNCHANGED response
    /\ UNCHANGED <<db, eng, now, stalls, net>>

\* Lines 120-122: read the balance, reject an invalid stake.
PlaceBetCheck(p) ==
    /\ response = NoResponse
    /\ call[p].pc = "place_check"
    /\ IF InvalidStake(call[p].amount, get_user_balance(users, call[p].user_id))
       THEN /\ response' = Respond(p, "place_bet", call[p].user_id, "InvalidStake", 0)
            /\ call' = [call EXCEPT ![p] = IdleCall]
       ELSE /\ call' = [call EXCEPT ![p].pc = "place_commit"]
            /\ UNCHANGED response
    /\ UNCHANGED <<ncalls, db, eng, now, stalls, net>>

\* Lines 124-132: insert the bet and debit the stake in one transaction.
PlaceBetCommit(p) ==
    /\ response = NoResponse
    /\ call[p].pc = "place_commit"
    /\ bets' = Append(bets, [user_id |-> call[p].user_id,
                             amount |-> call[p].amount,
                             round_id |-> call[p].round_id,
                             cashed_out |-> FALSE,
                             coefficient |-> StartCoef])
    /\ users' = UpdateBalance(users, call[p].user_id, 0 - call[p].amount)
    /\ response' = Respond(p, "place_bet", call[p].user_id, "success", 0)
    /\ call' = [call EXCEPT ![p] = IdleCall]
    /\ UNCHANGED <<ncalls, rounds, eng, now, stalls, net>>

\* --------------------------------------------------------------- cashout

\* Lines 136-142: read the current round, reject when none or not running.
CashoutRound(p, user_id) ==
    /\ Accepts(p)
    /\ ncalls' = ncalls + 1
    /\ LET round_id == get_current_round(rounds)
       IN  IF round_id = 0
           THEN /\ response' = Respond(p, "cashout", user_id, "NoActiveRound", 0)
                /\ call' = [call EXCEPT ![p] = IdleCall]
           ELSE IF rounds[round_id].status # "running"
           THEN /\ response' = Respond(p, "cashout", user_id, "InvalidPhase", 0)
                /\ call' = [call EXCEPT ![p] = IdleCall]
           ELSE /\ call' = [call EXCEPT ![p] =
                        [IdleCall EXCEPT !.pc = "cashout_select",
                                         !.user_id = user_id,
                                         !.round_id = round_id,
                                         !.status = rounds[round_id].status,
                                         !.start_time = rounds[round_id].start_time,
                                         !.invoked_ended = EndedRounds(rounds)]]
                /\ UNCHANGED response
    /\ UNCHANGED <<db, eng, now, stalls, net>>

\* Lines 144-155: price from the clock, select the bet row, reject when
\* there is none or it is already cashed out.
CashoutSelect(p) ==
    /\ response = NoResponse
    /\ call[p].pc = "cashout_select"
    /\ LET rowid == SelectBet(bets, call[p].user_id, call[p].round_id)
       IN  IF rowid = 0 \/ bets[rowid].cashed_out
           THEN /\ response' = Respond(p, "cashout", call[p].user_id, "NoActiveBet", 0)
                /\ call' = [call EXCEPT ![p] = IdleCall]
           ELSE /\ \E coef \in CurrentCoef(now, call[p].start_time) :
                    call' = [call EXCEPT ![p].pc = "cashout_commit",
                                         ![p].current_coef = coef,
                                         ![p].rowid = rowid,
                                         ![p].row_amount = bets[rowid].amount]
                /\ UNCHANGED response
    /\ UNCHANGED <<ncalls, db, eng, now, stalls, net>>

\* Lines 157-165: credit the win and mark the bet in one transaction.
CashoutCommit(p) ==
    /\ response = NoResponse
    /\ call[p].pc = "cashout_commit"
    /\ \E win \in Win(call[p].row_amount, call[p].current_coef) :
           /\ users' = UpdateBalance(users, call[p].user_id, win)
           /\ bets' = MarkCashedOut(bets, call[p].user_id, call[p].round_id,
                                    call[p].current_coef)
           /\ response' = Respond(p, "cashout", call[p].user_id, "success", win)
    /\ call' = [call EXCEPT ![p] = IdleCall]
    /\ UNCHANGED <<ncalls, rounds, eng, now, stalls, net>>

\* The endpoint's return value reaches the client: the response is observed
\* as the step right after the one that produced it.
Deliver ==
    /\ response # NoResponse
    /\ response' = NoResponse
    /\ UNCHANGED <<db, call, ncalls, eng, now, stalls, net>>

\* ------------------------------------------------------------- game_loop

\* The loop's steps run while requests are being handled on the worker
\* threads; the model follows requests whose handling overlaps at most
\* MaxOverlap steps of the loop.
LoopStep ==
    /\ response = NoResponse
    /\ \A p \in Workers : call[p].pc # "idle" => call[p].overlap < MaxOverlap
    /\ call' = [p \in Workers |->
                    IF call[p].pc # "idle"
                    THEN [call[p] EXCEPT !.overlap = @ + 1]
                    ELSE call[p]]

\* broadcast, lines 211-214: the pass starts; with an empty registry it is
\* over at once, otherwise it is suspended in the first send_json.
Broadcast(msg) ==
    /\ message' = msg
    /\ bc' = IF connected_clients = <<>>
             THEN NoPass
             ELSE [pc |-> "send", pos |-> 1, size |-> Len(connected_clients),
                   start |-> Range(connected_clients), got |-> {},
                   to_remove |-> <<>>]
    /\ UNCHANGED <<connected_clients, closed>>

\* Lines 183-190: create_new_round, get_current_round, first broadcast.
NewRound(crash_point) ==
    /\ LoopStep
    /\ eng.pc = "create"
    /\ bc.pc = "done"
    /\ Len(rounds) < MaxRounds
    /\ now' = Wake
    /\ LET rs == Append(rounds, [status |-> "waiting",
                                 start_time |-> Wake + WaitDelay,
                                 crash_point |-> crash_point])
           round_id == get_current_round(rs)
       IN  /\ rounds' = rs
           /\ eng' = [pc |-> "wait", round_id |-> round_id,
                      start_time |-> rs[round_id].start_time,
                      crash_point |-> rs[round_id].crash_point,
                      coef |-> 0, sleep |-> 0]
           /\ Broadcast([status |-> "waiting",
                         value |-> Countdown(rs[round_id].start_time, Wake)])
    /\ UNCHANGED <<users, bets, ncalls, response, stalls>>

\* Lines 193-195: one pass of the countdown loop, up to its sleep(1).
WaitTick ==
    /\ LoopStep
    /\ eng.pc = "wait"
    /\ bc.pc = "done"
    /\ Wake < eng.start_time
    /\ now' = Wake
    /\ eng' = [eng EXCEPT !.sleep = WaitSleep]
    /\ Broadcast([status |-> "waiting",
                  value |-> Countdown(eng.start_time, Wake)])
    /\ UNCHANGED <<db, ncalls, response, stalls>>

\* Lines 197-199: the round starts running.
StartFlight ==
    /\ LoopStep
    /\ eng.pc = "wait"
    /\ bc.pc = "done"
    /\ ~(Wake < eng.start_time)
    /\ now' = Wake
    /\ rounds' = update_round_status(rounds, eng.round_id, "running")
    /\ eng' = [eng EXCEPT !.pc = "flight", !.start_time = Wake,
                          !.coef = StartCoef, !.sleep = 0]
    /\ UNCHANGED <<users, bets, ncalls, response, stalls, net>>

\* Lines 202-205: one flight tick, up to its sleep(0.05).
FlightTick ==
    /\ LoopStep
    /\ eng.pc = "flight"
    /\ bc.pc = "done"
    /\ CoefBelow(eng.coef, eng.crash_point)
    /\ now' = Wake
    /\ eng' = [eng EXCEPT !.coef = @ + CoefStep, !.sleep = TickSleep]
    /\ Broadcast([status |-> "running", value |-> eng.coef + CoefStep])
    /\ UNCHANGED <<db, ncalls, response, stalls>>

\* The end of a flight without its update_round_status(round_id, "ended").
EndRound_without_update ==
    /\ LoopStep
    /\ eng.pc = "flight"
    /\ bc.pc = "done"
    /\ ~CoefBelow(eng.coef, eng.crash_point)
    /\ now' = Wake
    /\ eng' = [eng EXCEPT !.pc = "create", !.sleep = Cooldown]
    /\ Broadcast([status |-> "ended", value |-> eng.coef])
    /\ UNCHANGED <<db, ncalls, response, stalls>>

\* Lines 207-209: the round ends, up to the cooldown's sleep(3).
EndRound ==
    /\ LoopStep
    /\ eng.pc = "flight"
    /\ bc.pc = "done"
    /\ ~CoefBelow(eng.coef, eng.crash_point)
    /\ now' = Wake
    /\ rounds' = update_round_status(rounds, eng.round_id, "ended")
    /\ eng' = [eng EXCEPT !.pc = "create", !.sleep = Cooldown]
    /\ Broadcast([status |-> "ended", value |-> eng.coef])
    /\ UNCHANGED <<users, bets, ncalls, response, stalls>>

\* The game loop resumes StallTime late from the sleep it is in (the event
\* loop was busy, or the broadcast before the sleep waited on a slow
\* subscriber); the model follows MaxStalls such delays.
Stall ==
    /\ response = NoResponse
    /\ eng.pc \in {"wait", "flight"}
    /\ eng.sleep > 0
    /\ stalls < MaxStalls
    /\ now' = now + StallTime
    /\ stalls' = stalls + 1
    /\ UNCHANGED <<db, call, ncalls, response, eng, net>>

\* ------------------------------------------------------------ subscribers

\* websocket_endpoint, lines 172-173: accept and register.  Each connection
\* is a new WebSocket object; the model numbers them in order of arrival.
Connect(ws) ==
    /\ ws \notin Range(connected_clients) \cup closed
    /\ \A v \in Clients : v < ws => v \in Range(connected_clients) \cup closed
    /\ connected_clients' = Append(connected_clients, ws)
    /\ UNCHANGED <<db, call, ncalls, response, eng, now, stalls, closed, bc,
                   message>>

\* The peer of a registered subscriber goes away: sends to it fail from now.
PeerClose(ws) ==
    /\ ws \in Range(connected_clients)
    /\ ws \notin closed
    /\ closed' = closed \cup {ws}
    /\ UNCHANGED <<db, call, ncalls, response, eng, now, stalls,
                   connected_clients, bc, message>>

\* broadcast, lines 213-219: the send_json the pass is suspended in returns
\* or raises, and the pass goes on to the next item of the dict.  When the
\* dict changed size meanwhile, the `for` raises RuntimeError outside the
\* try: the exception leaves broadcast and ends the game_loop task.  After
\* the last item the failed subscribers are deleted and the pass returns.
SendResult ==
    /\ bc.pc = "send"
    /\ LET ws == connected_clients[bc.pos]
           got == IF ws \in closed THEN bc.got ELSE bc.got \cup {ws}
           to_remove == IF ws \in closed THEN Append(bc.to_remove, ws)
                        ELSE bc.to_remove
       IN  IF Len(connected_clients) # bc.size
           THEN /\ bc' = [bc EXCEPT !.pc = "raised", !.got = got,
                                    !.to_remove = to_remove]
                /\ eng' = [eng EXCEPT !.pc = "crashed"]
                /\ UNCHANGED connected_clients
           ELSE IF bc.pos < bc.size
           THEN /\ bc' = [bc EXCEPT !.pos = @ + 1, !.got = got,
                                    !.to_remove = to_remove]
                /\ UNCHANGED <<eng, connected_clients>>
           ELSE /\ bc' = [bc EXCEPT !.pc = "done", !.got = got,
                                    !.to_remove = to_remove]
                /\ connected_clients' = DelAll(connected_clients, to_remove)
                /\ UNCHANGED eng
    /\ UNCHANGED <<db, call, ncalls, response, now, stalls, closed, message>>

\* ------------------------------------------------------------------ spec

\* The endpoints and the game loop, no subscribers, sleeps on time.
Next ==
    \/ \E p \in Workers, u \in Users, a \in Amounts : PlaceBetRound(p, u, a)
    \/ \E p \in Workers : PlaceBetCheck(p)
    \/ \E p \in Workers : PlaceBetCommit(p)
    \/ \E p \in Workers, u \in Users : CashoutRound(p, u)
    \/ \E p \in Workers : CashoutSelect(p)
    \/ \E p \in Workers : CashoutCommit(p)
    \/ \E c \in CrashPoints : NewRound(c)
    \/ WaitTick
    \/ StartFlight
    \/ FlightTick
    \/ EndRound
    \/ Deliver

Spec == Init /\ [][Next]_vars

\* The same with the game loop resuming late.
NextT ==
    \/ Next
    \/ Stall

SpecT == Init /\ [][NextT]_vars

\* The game loop and the subscribers, no requests.
LoopNext ==
    \/ \E c \in DriftCrashPoints : NewRound(c)
    \/ WaitTick
    \/ StartFlight
    \/ FlightTick
    \/ EndRound
    \/ SendResult

NextB ==
    \/ LoopNext
    \/ \E ws \in Clients : Connect(ws)
    \/ \E ws \in Clients : PeerClose(ws)

SpecB == Init /\ [][NextB]_vars

\* asyncio resumes the game_loop task whenever its sleep or its send is over.
SpecBFair == SpecB /\ WF_vars(LoopNext)

\* ---------------------------------------------------------------- claims

C2_BalanceNonNegative ==
    \A u \in DOMAIN users : users[u] >= 0

C4_OneBetPerUserRound ==
    \A i, j \in 1..Len(bets) :
        (bets[i].user_id = bets[j].user_id /\ bets[i].round_id = bets[j].round_id)
        => i = j

RECURSIVE Staked(_, _, _)
Staked(bs, u, n) ==
    IF n = 0 THEN 0
    ELSE Staked(bs, u, n - 1) + (IF bs[n].user_id = u THEN bs[n].amount ELSE 0)

RECURSIVE Credited(_, _, _)
Credited(bs, u, n) ==
    IF n = 0 THEN 0
    ELSE Credited(bs, u, n - 1)
         + (IF bs[n].user_id = u /\ bs[n].cashed_out
            THEN SetMax(Round(bs[n].amount * bs[n].coefficient, 100))
            ELSE 0)

C6_PlaceBetEffect ==
    [][\A p \in Workers :
        (call[p].pc = "place_commit" /\ call'[p].pc = "idle")
        => /\ response'.result = "success"
           /\ call[p].amount > 0
           /\ call[p].user_id \in DOMAIN users
           /\ DOMAIN users' = DOMAIN users
           /\ \A u \in DOMAIN users :
                users'[u] = IF u = call[p].user_id
                            THEN users[u] - call[p].amount ELSE users[u]
           /\ Len(bets') = Len(bets) + 1
           /\ \A i \in 1..Len(bets) : bets'[i] = bets[i]
           /\ bets'[Len(bets')].user_id = call[p].user_id
           /\ bets'[Len(bets')].amount = call[p].amount
           /\ bets'[Len(bets')].round_id = call[p].round_id
           /\ bets'[Len(bets')].cashed_out = FALSE
           /\ rounds' = rounds
           /\ (rounds[call[p].round_id].status = "waiting"
               => call[p].round_id = get_current_round(rounds))]_vars

\* C6 witness: a place_bet has just succeeded while another user holds a bet.
C6_Witness ==
    /\ response.op = "place_bet" /\ response.result = "success"
    /\ Len(bets) = 2
    /\ bets[1].user_id # bets[2].user_id
    /\ users[bets[2].user_id] = InitUsers[bets[2].user_id] - bets[2].amount

\* C7: a place_bet whose amount is <= 0 or exceeds the user's balance (0 for
\* a user without an account) is rejected at the stake check with an error
\* and changes no balance, bet or round.
C7_InvalidStakeRejected ==
    [][\A p \in Workers :
        (/\ call[p].pc = "place_check"
         /\ call'[p].pc # call[p].pc
         /\ \/ call[p].amount <= 0
            \/ call[p].user_id \notin DOMAIN users
            \/ call[p].amount > users[call[p].user_id])
        => /\ call'[p].pc = "idle"
           /\ response'.worker = p
           /\ response'.result = "InvalidStake"
           /\ db' = db]_vars

\* C7 witness: a bet by the user without an account has just been rejected.
C7_Witness ==
    /\ response.op = "place_bet" /\ response.result = "InvalidStake"
    /\ response.user_id \notin DOMAIN users
    /\ bets = <<>> /\ users = InitUsers

\* The phase of the latest round, "none" before the first round.
LatestStatus ==
    IF rounds = <<>> THEN "none" ELSE rounds[Len(rounds)].status

LiveRounds(rs) ==
    {i \in 1..Len(rs) : rs[i].status \in {"waiting", "running"}}

C13_BroadcastPass ==
    bc.pc # "send" =>
        /\ bc.pc # "raised"
        /\ \A ws \in bc.start :
               \/ ws \in bc.got
               \/ ws \in Range(bc.to_remove) /\ ws \notin Range(connected_clients)

\* C14: a subscriber registering while broadcast is suspended in a send
\* leaves the pass without error and the game loop running.
C14_RegistrationDuringPass ==
    [][(bc.pc = "send" /\ Len(connected_clients) # bc.size)
          => (bc'.pc # "raised" /\ eng'.pc # "crashed")]_vars

\* The phase of round i, "none" while it does not exist.
StatusOf(i) ==
    IF i <= Len(rounds) THEN rounds[i].status ELSE "none"

\* C15: under weak fairness of the game loop every round that is waiting is
\* eventually running and every round that is running is eventually ended.
C15_RoundsProgress ==
    \A i \in 1..MaxRounds :
        /\ (StatusOf(i) = "waiting") ~> (StatusOf(i) = "running")
        /\ (StatusOf(i) = "running") ~> (StatusOf(i) = "ended")

\* C16: a bet is inserted (and its stake debited) only for a round that is
\* waiting at the moment of the insert.
C16_BetsOnlyWhileWaiting ==
    [][\A p \in Workers :
        (call[p].pc = "place_commit" /\ call'[p].pc = "idle")
        => rounds[call[p].round_id].status = "waiting"]_vars

C20_RoundFrame ==
    [][/\ Len(rounds') >= Len(rounds)
       /\ \A i \in 1..Len(rounds) :
              /\ rounds'[i].crash_point = rounds[i].crash_point
              /\ rounds'[i].start_time = rounds[i].start_time
              /\ rounds'[i].status # rounds[i].status => i = eng.round_id]_vars

\* Both rounds went through their phase updates.
C20_Witness ==
    /\ Len(rounds) = 2
    /\ rounds[1].status = "ended"
    /\ rounds[2].status = "ended"
====
